---- MODULE Spec2Model ----
(***************************************************************************)
(* Chunked, batched generation pipeline of synthetic-data-kit:             *)
(*   COTGenerator  (synthetic_data_kit/generators/cot_generator.py)        *)
(*   LLMClient     (synthetic_data_kit/models/llm_client.py)               *)
(* A request is identified by the index of the chunk it was built from     *)
(* (1..n); request 0 is the whole-document request of the single-call      *)
(* path.  Texts are sequences of tokens, so that parse_json_output is a    *)
(* computation on the text and not the identity.                           *)
(***************************************************************************)
EXTENDS Integers, Sequences, FiniteSets, TLC

\* ------------------------------------------------------------- bounds
MaxChunks == 3
MaxTarget == 2
MaxRetries == 3
MaxBatch == 2

\* generation_config.get("single_call_max_size", 8000)
single_call_max_size == 8000

\* ------------------------------------------------------------- texts
Tok(t) == [t |-> t, c |-> 0, k |-> 0]
LB == Tok("[")
RB == Tok("]")
CM == Tok(",")
SP == Tok(" ")
QT == Tok("quote")
WORD == Tok("word")
OBJ == Tok("{}")
ERRP == Tok("ERROR: ")
\* the k-th JSON object of the model's answer to request c
Item(c, k) == [t |-> "item", c |-> c, k |-> k]

NoneVal == <<Tok("None")>>
Fail == [ok |-> FALSE, nxt |-> 0]

RECURSIVE LStrip(_)
LStrip(s) == IF s # <<>> /\ Head(s) = SP THEN LStrip(Tail(s)) ELSE s

RECURSIVE RStrip(_)
RStrip(s) ==
  IF s # <<>> /\ s[Len(s)] = SP THEN RStrip(SubSeq(s, 1, Len(s) - 1)) ELSE s

\* str.strip()
Strip(s) == RStrip(LStrip(s))

\* re.search(r"\[.*\]", text, re.DOTALL): leftmost "[", greedy to the last "]"
BracketMatch(s) ==
  LET opens == {i \in 1..Len(s) : s[i] = LB}
      first == CHOOSE i \in opens : \A m \in opens : i <= m
      closes == {i \in 1..Len(s) : s[i] = RB /\ i > first}
      last == CHOOSE i \in closes : \A m \in closes : m <= i
  IN IF opens = {} \/ closes = {} THEN <<>> ELSE SubSeq(s, first, last)

\* json.loads ignores whitespace between tokens
JsonTokens(s) == SelectSeq(s, LAMBDA x : x # SP)

RECURSIVE ParseVal(_, _)
RECURSIVE ParseElems(_, _)
\* one JSON value starting at s[i]; nxt is the index after it
ParseVal(s, i) ==
  IF i > Len(s) THEN Fail
  ELSE IF s[i].t \in {"item", "{}"} THEN [ok |-> TRUE, nxt |-> i + 1]
  ELSE IF s[i] = LB
    THEN IF i + 1 <= Len(s) /\ s[i + 1] = RB
           THEN [ok |-> TRUE, nxt |-> i + 2]
           ELSE ParseElems(s, i + 1)
  ELSE Fail

\* the elements of an array, up to and including its closing bracket
ParseElems(s, i) ==
  LET v == ParseVal(s, i)
  IN IF ~v.ok \/ v.nxt > Len(s) THEN Fail
     ELSE IF s[v.nxt] = CM THEN ParseElems(s, v.nxt + 1)
     ELSE IF s[v.nxt] = RB THEN [ok |-> TRUE, nxt |-> v.nxt + 1]
     ELSE Fail

\* json.loads succeeds (no JSONDecodeError) on the text
JsonValid(s) ==
  LET j == JsonTokens(s)
      v == ParseVal(j, 1)
  IN v.ok /\ v.nxt = Len(j) + 1

RECURSIVE TopLevel(_, _, _)
\* the top-level elements of a valid JSON array; a nested array is one element
TopLevel(j, i, depth) ==
  IF i > Len(j) THEN <<>>
  ELSE IF j[i] = LB
    THEN (IF depth = 1 THEN <<Tok("array")>> ELSE <<>>) \o TopLevel(j, i + 1, depth + 1)
  ELSE IF j[i] = RB THEN TopLevel(j, i + 1, depth - 1)
  ELSE IF j[i] = CM THEN TopLevel(j, i + 1, depth)
  ELSE (IF depth = 1 THEN <<j[i]>> ELSE <<>>) \o TopLevel(j, i + 1, depth)

\* json.loads result is a list
IsList(s) == JsonValid(s) /\ JsonTokens(s)[1] = LB

ParseNone == [none |-> TRUE, raises |-> FALSE, list |-> <<>>]
ParseRaise == [none |-> FALSE, raises |-> TRUE, list |-> <<>>]

\* parse_json_output without its try/except: a JSONDecodeError leaves the function
parse_json_output_uncaught(output_text) ==
  LET stripped == Strip(output_text)
      m == BracketMatch(stripped)
      text == IF m # <<>> THEN m ELSE stripped
  IN IF output_text = NoneVal \/ ~JsonValid(text) THEN ParseRaise
     ELSE IF ~IsList(text) THEN ParseNone
     ELSE [none |-> FALSE, raises |-> FALSE, list |-> TopLevel(JsonTokens(text), 1, 0)]

\* COTGenerator.parse_json_output: [none |-> TRUE] is Python's None,
\* [raises |-> TRUE] an exception that is not caught inside the function
parse_json_output(output_text) ==
  IF output_text = NoneVal THEN ParseRaise   \* None.strip(): AttributeError
  ELSE
    LET stripped == Strip(output_text)
        m == BracketMatch(stripped)
        text == IF m # <<>> THEN m ELSE stripped
        quoted == text # <<>> /\ Head(text) = QT /\ text[Len(text)] = QT /\ Len(text) >= 2
        \* a quoted JSON string decodes to its content, which is loaded again
        inner == IF quoted THEN SubSeq(text, 2, Len(text) - 1) ELSE text
    IN IF ~JsonValid(inner) THEN ParseNone          \* json.JSONDecodeError
       ELSE IF ~IsList(inner) THEN ParseNone        \* not isinstance(result, list)
       ELSE [none |-> FALSE, raises |-> FALSE,
             list |-> TopLevel(JsonTokens(inner), 1, 0)]


\* ------------------------------------------------------------- backend
\* What the backend may answer to the request built from chunk c (c = 0: the
\* whole document): a bare array, an array wrapped in prose, prose only.
OkTexts(c) ==
  { <<LB, Item(c, 1), RB>>,
    <<WORD, LB, Item(c, 1), CM, Item(c, 2), RB, SP>>,
    <<WORD>> }

\* failures of one transport invocation: timeout / connection error / 5xx,
\* a response of no known shape, an authentication error
Transient == {"transient"}
Permanent == {"shape", "auth"}
FailKinds == Transient \cup Permanent

Outcomes(c) ==
  [kind : {"ok"}, text : OkTexts(c)] \cup [kind : FailKinds, text : {<<>>}]

\* str(e) of the exception of a failed attempt
Message(kind) == <<WORD>>

Providers == {"api-endpoint", "vllm"}
Modes == {"generate", "batch"}
RetryDelays == {2}

Min(a, b) == IF a < b THEN a ELSE b
Last(s) == s[Len(s)]
Take(s, k) == SubSeq(s, 1, Min(Len(s), k))

VARIABLES
  cfg,           \* resolved configuration and the call's arguments
  pc,            \* control point of the call under way
  batch_start,   \* _generate_with_chunking: first chunk of the current group
  j,             \* _generate_with_chunking: position in batch_responses
  seen,          \* chunks whose response parse_json_output has been applied to
  all_examples,  \* _generate_with_chunking / _generate_single_call: collected
  bc,            \* batch_completion: requests lo..hi of the call, group start i
  results,       \* batch_completion: results so far, then batch_responses
  order,         \* requests of the running group, in completion order
  req,           \* per request: state, attempt (loop variable), result, exception in hand
  calls,         \* per request: transport invocations
  fails,         \* per request: failed transport invocations
  sleeps,        \* per request: the sleeps of its retry loop, in order
  twin,          \* the two runs compared under different log settings
  dirjob,        \* directory_processor: one process_directory_* call
  call,          \* a function of the text utilities or the quality filter: arguments, result
  doc            \* process_document against a client taken call by call

vars == <<cfg, pc, batch_start, j, seen, all_examples, bc, results, order,
          req, calls, fails, sleeps, twin, dirjob, call, doc>>

Ids == 0..cfg.n
Chunks == 1..cfg.n
Chunked == cfg.mode = "generate" /\ cfg.doc_len >= single_call_max_size
Api == cfg.provider = "api-endpoint"

Configs ==
  { c \in [mode : Modes, provider : Providers, max_retries : 0..MaxRetries,
           retry_delay : RetryDelays, batch_size : 1..MaxBatch,
           doc_len : {single_call_max_size - 1, single_call_max_size},
           n : 0..MaxChunks, target : 0..MaxTarget] :
      /\ c.mode = "batch" => c.doc_len = single_call_max_size /\ c.target = 0 /\ c.n >= 1
      /\ c.mode = "generate" => (c.n = 0 <=> c.doc_len < single_call_max_size) }

IdleReq == [st |-> "idle", attempt |-> 0, res |-> <<>>, err |-> "none"]

Init ==
  /\ cfg \in Configs
  /\ pc = "start"
  /\ batch_start = 1
  /\ j = 1
  /\ seen = <<>>
  /\ all_examples = <<>>
  /\ bc = [lo |-> 1, hi |-> 0, i |-> 1]
  /\ results = <<>>
  /\ order = <<>>
  /\ req = [c \in Ids |-> IdleReq]
  /\ calls = [c \in Ids |-> 0]
  /\ fails = [c \in Ids |-> 0]
  /\ sleeps = [c \in Ids |-> <<>>]
  /\ twin = <<>>
  /\ dirjob = <<>> /\ call = <<>> /\ doc = <<>>

\* ------------------------------------------------------------- retry loop
\* the last pass taken to be the one after range(max_retries)
IsLastAttemptOnePast(attempt) == attempt = cfg.max_retries

\* `if attempt == self.max_retries - 1`
IsLastAttempt(attempt) == attempt = cfg.max_retries - 1

\* the delay computed from the loop variable itself
BackoffZeroBased(attempt) == cfg.retry_delay * attempt

\* `time.sleep(self.retry_delay * (attempt + 1))`
Backoff(attempt) == cfg.retry_delay * (attempt + 1)

\* `except Exception as e:` catches every failure kind, the retry loop goes on
Retried(kind) == kind \in FailKinds

\* the transport is invoked for request c (one pass of `for attempt in range`)
Issue(c, attempt) ==
  /\ req' = [req EXCEPT ![c] = [@ EXCEPT !.st = "inflight", !.attempt = attempt, !.err = "none"]]
  /\ calls' = [calls EXCEPT ![c] = @ + 1]

\* a failed attempt that is not the last one: sleep, then loop
Sleep(c, kind) ==
  /\ req' = [req EXCEPT ![c] = [@ EXCEPT !.st = "sleeping", !.err = kind]]
  /\ sleeps' = [sleeps EXCEPT ![c] = Append(@, Backoff(req[c].attempt))]

InFlight == {c \in Ids : req[c].st = "inflight"}
Pending == {c \in Ids : req[c].st \in {"inflight", "sleeping"}}

\* ------------------------------------------------------------- generate_cot_examples
\* the threshold compared with `<=`
UseSingleCallInclusive(len) == len <= single_call_max_size

\* `if len(document_text) < single_call_max_size:` one call for the whole document
UseSingleCall(len) == len < single_call_max_size

\* ------------------------------------------------------------- chat_completion
\* generate_cot_examples on a short document: _generate_single_call calls
\* chat_completion, whose retry loop starts with its first attempt.  With
\* max_retries = 0 the loop body never runs and chat_completion returns None.
SingleCallStart ==
  /\ pc = "start" /\ cfg.mode = "generate"
  /\ UseSingleCall(cfg.doc_len)
  /\ IF cfg.max_retries = 0
       THEN /\ req' = [req EXCEPT ![0] = [@ EXCEPT !.st = "none", !.res = NoneVal]]
            /\ pc' = IF parse_json_output(NoneVal).raises THEN "raised" ELSE "done"
            /\ UNCHANGED calls
       ELSE /\ Issue(0, 0)
            /\ pc' = "chat"
  /\ UNCHANGED <<cfg, twin, dirjob, call, doc, batch_start, j, seen, all_examples, bc, results, order, fails, sleeps>>

\* what _generate_single_call returns for the response text
SingleCallResult(response) ==
  LET examples == parse_json_output(response)
  IN IF examples.none THEN <<>> ELSE examples.list

\* the transport answers the request of chat_completion
ChatRespond ==
  /\ pc = "chat" /\ req[0].st = "inflight"
  /\ \E o \in Outcomes(0) :
       IF o.kind = "ok"
         THEN /\ req' = [req EXCEPT ![0] = [@ EXCEPT !.st = "ok", !.res = o.text, !.err = "none"]]
              /\ all_examples' = SingleCallResult(o.text)
              /\ pc' = "done"
              /\ UNCHANGED <<fails, sleeps>>
         ELSE /\ fails' = [fails EXCEPT ![0] = @ + 1]
              /\ UNCHANGED all_examples
              /\ IF Retried(o.kind) /\ ~IsLastAttempt(req[0].attempt)
                   THEN /\ Sleep(0, o.kind)
                        /\ UNCHANGED pc
                   ELSE \* raise Exception("Failed to get ... completion after ...")
                        /\ req' = [req EXCEPT ![0] = [@ EXCEPT !.st = "raised", !.err = "none"]]
                        /\ pc' = "raised"
                        /\ UNCHANGED sleeps
  /\ UNCHANGED <<cfg, twin, dirjob, call, doc, batch_start, j, seen, bc, results, order, calls>>

\* the sleep of chat_completion's retry loop is over: next attempt
ChatWake ==
  /\ pc = "chat" /\ req[0].st = "sleeping"
  /\ Issue(0, req[0].attempt + 1)
  /\ UNCHANGED <<cfg, twin, dirjob, call, doc, pc, batch_start, j, seen, all_examples, bc, results, order, fails, sleeps>>

\* ------------------------------------------------------------- batch_completion
\* the slice taken without its upper end
GroupEndAll(i, hi) == hi

\* `message_batches[i:i+batch_size]`: last request of the group starting at i
GroupEnd(i, hi) == Min(i + cfg.batch_size - 1, hi)
Group == bc.i .. GroupEnd(bc.i, bc.hi)

\* a direct call of LLMClient.batch_completion with all n requests
BatchStart ==
  /\ pc = "start" /\ cfg.mode = "batch"
  /\ bc' = [lo |-> 1, hi |-> cfg.n, i |-> 1]
  /\ results' = <<>>
  /\ pc' = "bc_loop"
  /\ UNCHANGED <<cfg, twin, dirjob, call, doc, batch_start, j, seen, all_examples, order, req, calls, fails, sleeps>>

\* `for i in range(0, len(message_batches), batch_size)`: the loop is over and
\* the results are returned, or the next group is submitted.  For the
\* api-endpoint provider asyncio.gather starts every task of the group, and each
\* runs up to its first await, the transport call.
BcLoop ==
  /\ pc = "bc_loop"
  /\ IF bc.i > bc.hi
       THEN /\ pc' = IF cfg.mode = "batch" THEN "done" ELSE "proc"
            /\ j' = 1
            /\ order' = <<>>
            /\ UNCHANGED <<req, calls>>
       ELSE /\ pc' = "bc_group"
            /\ UNCHANGED j
            /\ IF Api /\ cfg.max_retries > 0
                 THEN /\ req' = [c \in Ids |-> IF c \in Group
                                   THEN [req[c] EXCEPT !.st = "inflight", !.attempt = 0]
                                   ELSE req[c]]
                      /\ calls' = [c \in Ids |-> IF c \in Group THEN calls[c] + 1 ELSE calls[c]]
                      /\ order' = <<>>
                 ELSE IF Api
                   THEN \* range(0): every task returns None at once
                        /\ req' = [c \in Ids |-> IF c \in Group
                                     THEN [req[c] EXCEPT !.st = "none", !.res = NoneVal]
                                     ELSE req[c]]
                        /\ order' = [k \in 1..Cardinality(Group) |-> bc.i + k - 1]
                        /\ UNCHANGED calls
                   ELSE order' = <<>> /\ UNCHANGED <<req, calls>>
  /\ UNCHANGED <<cfg, twin, dirjob, call, doc, batch_start, seen, all_examples, bc, results, fails, sleeps>>

\* _process_message_async: the transport answers request c of the group
AsyncRespond(c) ==
  /\ pc = "bc_group" /\ Api /\ req[c].st = "inflight"
  /\ \E o \in Outcomes(c) :
       IF o.kind = "ok"
         THEN /\ req' = [req EXCEPT ![c] = [@ EXCEPT !.st = "ok", !.res = o.text, !.err = "none"]]
              /\ order' = Append(order, c)
              /\ UNCHANGED <<fails, sleeps>>
         ELSE /\ fails' = [fails EXCEPT ![c] = @ + 1]
              /\ IF Retried(o.kind) /\ ~IsLastAttempt(req[c].attempt)
                   THEN /\ Sleep(c, o.kind)
                        /\ UNCHANGED order
                   ELSE \* return f"ERROR: {str(e)}"
                        /\ req' = [req EXCEPT ![c] = [@ EXCEPT !.st = "failed", !.err = "none",
                                                       !.res = <<ERRP>> \o Message(o.kind)]]
                        /\ order' = Append(order, c)
                        /\ UNCHANGED sleeps
  /\ UNCHANGED <<cfg, twin, dirjob, call, doc, pc, batch_start, j, seen, all_examples, bc, results, calls>>

\* _process_message_async: asyncio.sleep is over, next attempt
AsyncWake(c) ==
  /\ pc = "bc_group" /\ Api /\ req[c].st = "sleeping"
  /\ Issue(c, req[c].attempt + 1)
  /\ UNCHANGED <<cfg, twin, dirjob, call, doc, pc, batch_start, j, seen, all_examples, bc, results, order, fails, sleeps>>

\* results taken as the tasks complete (asyncio.as_completed)
GatherAsCompleted(lo, hi) == [k \in 1..(hi - lo + 1) |-> req[order[k]].res]

\* `await asyncio.gather(*tasks)`: one result per task, in the order of the tasks
GatherResults(lo, hi) == [k \in 1..(hi - lo + 1) |-> req[lo + k - 1].res]

\* every task of the group is over: `results.extend(batch_results)`
Gather ==
  /\ pc = "bc_group" /\ Api
  /\ \A c \in Group : req[c].st \in {"ok", "failed", "none"}
  /\ results' = results \o GatherResults(bc.i, GroupEnd(bc.i, bc.hi))
  /\ bc' = [bc EXCEPT !.i = @ + cfg.batch_size]
  /\ pc' = "bc_loop"
  /\ UNCHANGED <<cfg, twin, dirjob, call, doc, batch_start, j, seen, all_examples, order, req, calls, fails, sleeps>>

\* the exception of a group left to leave generate
GroupFailureRaises ==
  /\ pc' = "raised"
  /\ UNCHANGED batch_start

\* the orchestrator's `except Exception` around a group: on to the next group
NextGroup ==
  /\ batch_start' = batch_start + cfg.batch_size
  /\ pc' = "loop"

\* _vllm_batch_completion: requests.post for the next request of the group
VllmSend ==
  /\ pc = "bc_group" /\ ~Api /\ InFlight = {}
  /\ \E c \in Group :
       /\ req[c].st = "idle"
       /\ \A d \in Group : d < c => req[d].st = "ok"
       /\ Issue(c, 0)
  /\ UNCHANGED <<cfg, twin, dirjob, call, doc, pc, batch_start, j, seen, all_examples, bc, results, order, fails, sleeps>>

\* _vllm_batch_completion: the post returns.  A failure of any kind leaves the
\* whole call with `raise Exception("Failed to process vLLM batch: ...")`.
VllmRecv(c) ==
  /\ pc = "bc_group" /\ ~Api /\ req[c].st = "inflight"
  /\ \E o \in Outcomes(c) :
       IF o.kind = "ok"
         THEN /\ req' = [req EXCEPT ![c] = [@ EXCEPT !.st = "ok", !.res = o.text]]
              /\ order' = Append(order, c)
              /\ UNCHANGED <<fails, batch_start>>
              /\ IF c = GroupEnd(bc.i, bc.hi)
                   THEN /\ results' = results \o
                             [k \in 1..Cardinality(Group) |-> req'[bc.i + k - 1].res]
                        /\ bc' = [bc EXCEPT !.i = @ + cfg.batch_size]
                        /\ pc' = "bc_loop"
                   ELSE UNCHANGED <<results, bc, pc>>
         ELSE /\ req' = [req EXCEPT ![c] = [@ EXCEPT !.st = "raised", !.err = "none"]]
              /\ fails' = [fails EXCEPT ![c] = @ + 1]
              /\ UNCHANGED <<results, bc, order>>
              /\ IF cfg.mode = "batch"
                   THEN pc' = "raised" /\ UNCHANGED batch_start
                   ELSE NextGroup
  /\ UNCHANGED <<cfg, twin, dirjob, call, doc, j, seen, all_examples, calls, sleeps>>

\* ------------------------------------------------------------- _generate_with_chunking
\* generate_cot_examples on a document of single_call_max_size or more
ChunkedStart ==
  /\ pc = "start" /\ cfg.mode = "generate"
  /\ ~UseSingleCall(cfg.doc_len)
  /\ batch_start' = 1
  /\ pc' = "loop"
  /\ UNCHANGED <<cfg, twin, dirjob, call, doc, j, seen, all_examples, bc, results, order, req, calls, fails, sleeps>>

\* the comparison written strict
TargetReachedStrict(examples) == Len(examples) > cfg.target

\* `if len(all_examples) >= num_examples`
TargetReached(examples) == Len(examples) >= cfg.target

\* the slice of all_messages running to the last chunk
batch_end_all == cfg.n

\* `batch_end = min(batch_start + batch_size, len(chunks))`, as the last chunk
batch_end == Min(batch_start + cfg.batch_size - 1, cfg.n)

\* `for batch_start in range(0, len(chunks), batch_size)`: the loop ends, breaks
\* on the target, or calls batch_completion for the next group
OrchLoop ==
  /\ pc = "loop"
  /\ IF batch_start > cfg.n \/ TargetReached(all_examples)
       THEN /\ pc' = "done"
            /\ UNCHANGED <<bc, results, order>>
       ELSE /\ bc' = [lo |-> batch_start, hi |-> batch_end, i |-> batch_start]
            /\ results' = <<>>
            /\ order' = <<>>
            /\ pc' = "bc_loop"
  /\ UNCHANGED <<cfg, twin, dirjob, call, doc, batch_start, j, seen, all_examples, req, calls, fails, sleeps>>

\* the items of the chunk appended without the slice
ExtendUncut(examples, chunk_examples) ==
  IF chunk_examples # <<>> /\ cfg.target - Len(examples) > 0
    THEN examples \o chunk_examples
    ELSE examples

\* the items of the chunk put in front of the collected ones
ExtendFront(examples, chunk_examples) ==
  LET remaining_examples == cfg.target - Len(examples)
  IN IF chunk_examples # <<>> /\ remaining_examples > 0
       THEN Take(chunk_examples, remaining_examples) \o examples
       ELSE examples

\* `chunk_examples[:remaining_examples]` appended to all_examples
Extend(examples, chunk_examples) ==
  LET remaining_examples == cfg.target - Len(examples)
  IN IF chunk_examples # <<>> /\ remaining_examples > 0
       THEN examples \o Take(chunk_examples, remaining_examples)
       ELSE examples

\* one pass of `for j, response in enumerate(batch_responses)`
ProcResponse ==
  /\ pc = "proc"
  /\ LET response == results[j]
         chunk_index == batch_start + j - 1
         chunk_examples == parse_json_output(response)
         extended == Extend(all_examples, chunk_examples.list)
     IN IF TargetReached(all_examples)
          THEN /\ pc' = "done"
               /\ UNCHANGED <<batch_start, j, seen, all_examples>>
          ELSE /\ seen' = Append(seen, chunk_index)
               /\ IF chunk_examples.raises
                    THEN NextGroup /\ UNCHANGED <<j, all_examples>>
                    ELSE /\ all_examples' = extended
                         /\ IF TargetReached(extended)
                              THEN pc' = "done" /\ UNCHANGED <<batch_start, j>>
                              ELSE IF j < Len(results)
                                THEN j' = j + 1 /\ UNCHANGED <<pc, batch_start>>
                                ELSE NextGroup /\ UNCHANGED j
  /\ UNCHANGED <<cfg, twin, dirjob, call, doc, bc, results, order, req, calls, fails, sleeps>>

\* ------------------------------------------------------------- specification
Next ==
  \/ SingleCallStart
  \/ ChatRespond
  \/ ChatWake
  \/ BatchStart
  \/ BcLoop
  \/ \E c \in Chunks : AsyncRespond(c)
  \/ \E c \in Chunks : AsyncWake(c)
  \/ Gather
  \/ VllmSend
  \/ \E c \in Chunks : VllmRecv(c)
  \/ ChunkedStart
  \/ OrchLoop
  \/ ProcResponse

Spec == Init /\ [][Next]_vars

\* ------------------------------------------------------------- enhance_with_cot
\* the i-th conversation handed to enhance_with_cot, and its rewritten form
Conv(i) == [t |-> "item", c |-> i, k |-> 0]
Enhanced(i) == [t |-> "item", c |-> i, k |-> 1]
\* the `conversations` argument
conversations == [i \in 1..cfg.n |-> Conv(i)]

RECURSIVE ArrayBody(_)
\* the elements of a JSON array text, separated by commas
ArrayBody(elems) ==
  IF elems = <<>> THEN <<>>
  ELSE IF Len(elems) = 1 THEN elems
  ELSE <<Head(elems), CM>> \o ArrayBody(Tail(elems))
ArrayText(elems) == <<LB>> \o ArrayBody(elems) \o <<RB>>

\* What the backend may answer to the one request holding all n conversations:
\* the n rewritten conversations, bare or wrapped in prose; the array with a
\* JSON object where the rewrite of conversation m should be; the array without
\* its last element; prose only.
EnhanceTexts ==
  LET all == [i \in 1..cfg.n |-> Enhanced(i)]
  IN { ArrayText(all), <<WORD, SP>> \o ArrayText(all), <<WORD>> }
     \cup { ArrayText([all EXCEPT ![m] = OBJ]) : m \in 1..cfg.n }
     \cup (IF cfg.n > 0 THEN {ArrayText(SubSeq(all, 1, cfg.n - 1))} ELSE {})

EnhanceOutcomes ==
  [kind : {"ok"}, text : EnhanceTexts] \cup [kind : FailKinds, text : {<<>>}]

EnhanceConfigs ==
  [mode : {"enhance"}, provider : Providers, max_retries : 0..MaxRetries,
   retry_delay : RetryDelays, batch_size : 1..MaxBatch,
   doc_len : {single_call_max_size}, n : 0..MaxChunks, target : {0}]

InitEnhance ==
  /\ cfg \in EnhanceConfigs
  /\ pc = "start"
  /\ batch_start = 1
  /\ j = 1
  /\ seen = <<>>
  /\ all_examples = <<>>
  /\ bc = [lo |-> 1, hi |-> 0, i |-> 1]
  /\ results = <<>>
  /\ order = <<>>
  /\ req = [c \in Ids |-> IdleReq]
  /\ calls = [c \in Ids |-> 0]
  /\ fails = [c \in Ids |-> 0]
  /\ sleeps = [c \in Ids |-> <<>>]
  /\ twin = <<>>
  /\ dirjob = <<>> /\ call = <<>> /\ doc = <<>>

\* enhance_with_cot dumps the whole list into one prompt and calls
\* chat_completion once (request 0).  With max_retries = 0 chat_completion
\* returns None, on which parse_json_output raises.
EnhanceStart ==
  /\ pc = "start" /\ cfg.mode = "enhance"
  /\ IF cfg.max_retries = 0
       THEN /\ req' = [req EXCEPT ![0] = [@ EXCEPT !.st = "none", !.res = NoneVal]]
            /\ pc' = IF parse_json_output(NoneVal).raises THEN "raised" ELSE "done"
            /\ UNCHANGED calls
       ELSE /\ Issue(0, 0)
            /\ pc' = "chat"
  /\ UNCHANGED <<cfg, twin, dirjob, call, doc, batch_start, j, seen, all_examples, bc, results, order, fails, sleeps>>

\* `if enhanced_conversations is None: return conversations`, else the parsed
\* list as the model wrote it
EnhanceResult(response) ==
  LET enhanced_conversations == parse_json_output(response)
  IN IF enhanced_conversations.none THEN conversations
     ELSE enhanced_conversations.list

\* the transport answers the request of enhance_with_cot's chat_completion
EnhanceRespond ==
  /\ pc = "chat" /\ cfg.mode = "enhance" /\ req[0].st = "inflight"
  /\ \E o \in EnhanceOutcomes :
       IF o.kind = "ok"
         THEN /\ req' = [req EXCEPT ![0] = [@ EXCEPT !.st = "ok", !.res = o.text, !.err = "none"]]
              /\ all_examples' = EnhanceResult(o.text)
              /\ pc' = "done"
              /\ UNCHANGED <<fails, sleeps>>
         ELSE /\ fails' = [fails EXCEPT ![0] = @ + 1]
              /\ UNCHANGED all_examples
              /\ IF Retried(o.kind) /\ ~IsLastAttempt(req[0].attempt)
                   THEN /\ Sleep(0, o.kind)
                        /\ UNCHANGED pc
                   ELSE /\ req' = [req EXCEPT ![0] = [@ EXCEPT !.st = "raised", !.err = "none"]]
                        /\ pc' = "raised"
                        /\ UNCHANGED sleeps
  /\ UNCHANGED <<cfg, twin, dirjob, call, doc, batch_start, j, seen, bc, results, order, calls>>

NextEnhance ==
  \/ EnhanceStart
  \/ EnhanceRespond
  \/ ChatWake

SpecEnhance == InitEnhance /\ [][NextEnhance]_vars

\* ------------------------------------------------------------- two runs, two log settings
\* process_document run twice on the same document against the same backend
\* answers, each run with its own SDK_VERBOSE / SDK_DEBUG.  A run is a record:
\* env (the two variables), pc, cur (request under way: -1 the summary, 0 the
\* whole document, c >= 1 chunk c), attempt, ev (what the run did last: request
\* sent, sleep, return, raise), response (the text the client handed back last),
\* batch_start, results, jj, collected, and log (lines written in the last
\* step).  The requests of a group are taken one at a time, in position order.
\* The first run has neither variable set, the second any setting.
EnvValues == [SDK_VERBOSE : {"unset", "TRUE"}, SDK_DEBUG : {"unset", "true"}]

Unset == [SDK_VERBOSE |-> "unset", SDK_DEBUG |-> "unset"]

\* str.lower() on the values of EnvValues
Lower(v) == IF v = "TRUE" THEN "true" ELSE v
\* `os.environ.get(name, 'false').lower() == 'true'`
FlagSet(v) == Lower(IF v = "unset" THEN "false" ELSE v) = "true"
Verbose(r) == FlagSet(r.env.SDK_VERBOSE)
DebugMode(r) == FlagSet(r.env.SDK_DEBUG)

\* `if <flag>: logger.info(...)` / `print(...)`
Emit(r, flag, lines) == [r EXCEPT !.log = IF flag THEN @ + lines ELSE @]
Event(type, c, v) == [type |-> type, c |-> c, v |-> v]

\* logging the full response fails the attempt
LoggedResponseLost(o, debug_mode) ==
  IF debug_mode /\ o.kind = "ok" THEN [kind |-> "shape", text |-> <<>>] ELSE o

\* `if debug_mode: logger.debug(f"Full response: ...")`: the response goes on
\* to the extraction as it came
LoggedResponse(o, debug_mode) == o

\* process_document / _generate_with_chunking return
Finish(r) == [r EXCEPT !.pc = "done", !.ev = Event("return", 0, 0)]
\* the exception leaves process_document
Raised(r) == [r EXCEPT !.pc = "raised", !.ev = Event("raise", 0, 0)]
\* first pass of a retry loop (or the one post of _vllm_batch_completion)
Attempt(r, c) ==
  [r EXCEPT !.pc = "chat", !.cur = c, !.attempt = 0, !.ev = Event("request", c, 0)]

RECURSIVE TwinBatchBegin(_, _)
\* batch_completion takes up request c of the group
TwinBatchBegin(r, c) ==
  LET TwinBatchResult(text) ==
        LET r1 == [r EXCEPT !.results = Append(@, text)]
        IN IF c = GroupEnd(r.batch_start, cfg.n)
             THEN [r1 EXCEPT !.pc = "proc", !.jj = 1]
             ELSE TwinBatchBegin(r1, c + 1)
  IN IF Api /\ cfg.max_retries = 0
       THEN TwinBatchResult(NoneVal)
       ELSE Attempt(Emit(r, Verbose(r) /\ ~Api, 1), c)

\* `for batch_start in range(0, len(chunks), batch_size)`: loop over, break on
\* the target, or batch_completion for the next group
TwinLoopHead(r) ==
  IF r.batch_start > cfg.n THEN Finish(r)
  ELSE IF TargetReached(r.collected) THEN Finish(Emit(r, Verbose(r), 1))
  ELSE TwinBatchBegin(Emit([r EXCEPT !.results = <<>>], TRUE, 1), r.batch_start)

\* the orchestrator goes on to the next group
TwinNextGroup(r) == TwinLoopHead([r EXCEPT !.batch_start = @ + cfg.batch_size])

\* _generate_single_call with the text chat_completion returned
TwinSingleResult(r, text) ==
  LET examples == parse_json_output(text)
  IN IF examples.raises THEN Raised(r)
     ELSE IF examples.none THEN Finish(Emit(r, Verbose(r), 2))
     ELSE Finish(Emit([r EXCEPT !.collected = examples.list], Verbose(r), 1))

\* chat_completion is called for request c; range(0) returns None at once
TwinChatBegin(r, c) ==
  IF cfg.max_retries > 0 THEN Attempt(Emit(r, Verbose(r), 1), c)
  ELSE IF c = 0 THEN TwinSingleResult(r, NoneVal)
  ELSE LET r1 == [r EXCEPT !.response = NoneVal]
       IN IF UseSingleCall(cfg.doc_len) THEN TwinSingleResult(r1, NoneVal)
          ELSE TwinLoopHead([r1 EXCEPT !.batch_start = 1])

\* process_document: SDK_VERBOSE is written back, then the summary is asked for
TwinBegin(r) ==
  LET verbose == Verbose(r)
      r1 == [r EXCEPT !.env.SDK_VERBOSE = IF verbose THEN "true" ELSE "false"]
  IN TwinChatBegin(r1, -1)

\* the caller takes the text of request c
TwinResult(r, c, text) ==
  IF c = -1
    THEN LET r1 == [r EXCEPT !.response = text]
         IN IF UseSingleCall(cfg.doc_len)
              THEN TwinChatBegin(Emit(r1, Verbose(r), 1), 0)
              ELSE TwinLoopHead([r1 EXCEPT !.batch_start = 1])
  ELSE IF c = 0 THEN TwinSingleResult(r, text)
  ELSE TwinBatchBegin([r EXCEPT !.results = Append(@, text)], c + 1)

\* the text of request c, the last of its group, goes to the orchestrator
TwinGroupDone(r, text) ==
  [r EXCEPT !.results = Append(@, text), !.pc = "proc", !.jj = 1]

\* the backend's answer o to the attempt under way
TwinAnswer(r, o) ==
  LET c == r.cur
      retry_loop == c <= 0 \/ Api
      got == IF Api THEN LoggedResponse(o, DebugMode(r)) ELSE o
      r1 == Emit(Emit(r, Verbose(r), 1), DebugMode(r) /\ Api, 1)
      Deliver(text) ==
        IF c >= 1 /\ c = GroupEnd(r.batch_start, cfg.n)
          THEN TwinGroupDone(r1, text)
          ELSE TwinResult(r1, c, text)
  IN IF got.kind = "ok" THEN Deliver(got.text)
     ELSE IF ~retry_loop
       THEN \* _vllm_batch_completion raises, the orchestrator's except takes it
            TwinNextGroup(Emit(r1, Verbose(r), 1))
     ELSE LET r2 == Emit(Emit(r1, (Verbose(r) \/ DebugMode(r)) /\ Api /\ got.kind = "shape", 2),
                         Verbose(r), 1)
          IN IF Retried(got.kind) /\ ~IsLastAttempt(r.attempt)
               THEN [r2 EXCEPT !.pc = "sleeping", !.ev = Event("sleep", c, Backoff(r.attempt))]
               ELSE IF c <= 0 THEN Raised(r2)
               ELSE Deliver(<<ERRP>> \o Message(got.kind))

\* the sleep of the retry loop is over
TwinRetry(r) ==
  [r EXCEPT !.pc = "chat", !.attempt = @ + 1, !.ev = Event("request", r.cur, r.attempt + 1)]

\* one pass of `for j, response in enumerate(batch_responses)`
TwinProcess(r) ==
  LET chunk_examples == parse_json_output(r.results[r.jj])
      extended == Extend(r.collected, chunk_examples.list)
      r1 == Emit([r EXCEPT !.collected = extended], Verbose(r) /\ extended # r.collected, 1)
  IN IF TargetReached(r.collected) THEN Finish(Emit(r, Verbose(r), 1))
     ELSE IF chunk_examples.raises THEN TwinNextGroup(Emit(r, Verbose(r), 1))
     ELSE IF TargetReached(extended) THEN Finish(r1)
     ELSE IF r.jj < Len(r.results) THEN [r1 EXCEPT !.jj = @ + 1]
     ELSE TwinNextGroup(r1)

NewRun(env) ==
  [env |-> env, pc |-> "start", cur |-> 0, attempt |-> 0, ev |-> Event("none", 0, 0),
   response |-> <<>>, batch_start |-> 1, results |-> <<>>, jj |-> 1,
   collected |-> <<>>, log |-> 0]

InitTwin ==
  /\ cfg \in {c \in Configs : c.mode = "generate"}
  /\ twin \in {<<NewRun(Unset), NewRun(e)>> : e \in EnvValues}
  /\ pc = "start"
  /\ batch_start = 1
  /\ j = 1
  /\ seen = <<>>
  /\ all_examples = <<>>
  /\ bc = [lo |-> 1, hi |-> 0, i |-> 1]
  /\ results = <<>>
  /\ order = <<>>
  /\ req = [c \in Ids |-> IdleReq]
  /\ calls = [c \in Ids |-> 0]
  /\ fails = [c \in Ids |-> 0]
  /\ sleeps = [c \in Ids |-> <<>>]
  /\ dirjob = <<>> /\ call = <<>> /\ doc = <<>>

Both(p) == twin[1].pc = p /\ twin[2].pc = p
\* the run at the start of a step, nothing written yet in this step
Quiet(r) == [r EXCEPT !.log = 0]
TwinFixed == <<cfg, pc, batch_start, j, seen, all_examples, bc, results, order,
               req, calls, fails, sleeps, dirjob, call, doc>>

\* both runs call process_document
TwinStart ==
  /\ Both("start")
  /\ twin' = [i \in 1..2 |-> TwinBegin(Quiet(twin[i]))]
  /\ UNCHANGED TwinFixed

\* the backend answers the attempt under way, the same in both runs
TwinRespond ==
  /\ Both("chat") /\ twin[1].cur = twin[2].cur
  /\ \E o \in Outcomes(twin[1].cur) : twin' = [i \in 1..2 |-> TwinAnswer(Quiet(twin[i]), o)]
  /\ UNCHANGED TwinFixed

TwinWake ==
  /\ Both("sleeping")
  /\ twin' = [i \in 1..2 |-> TwinRetry(Quiet(twin[i]))]
  /\ UNCHANGED TwinFixed

TwinProc ==
  /\ Both("proc")
  /\ twin' = [i \in 1..2 |-> TwinProcess(Quiet(twin[i]))]
  /\ UNCHANGED TwinFixed

NextTwin ==
  \/ TwinStart
  \/ TwinRespond
  \/ TwinWake
  \/ TwinProc

SpecTwin == InitTwin /\ [][NextTwin]_vars

\* ------------------------------------------------------------- directory_processor
MaxFiles == 3

\* every variable of the generation pipeline at rest
Parked ==
  /\ cfg = [mode |-> "none", provider |-> "api-endpoint", max_retries |-> 0,
            retry_delay |-> 2, batch_size |-> 1, doc_len |-> 0, n |-> 0, target |-> 0]
  /\ pc = "start"
  /\ batch_start = 1
  /\ j = 1
  /\ seen = <<>>
  /\ all_examples = <<>>
  /\ bc = [lo |-> 1, hi |-> 0, i |-> 1]
  /\ results = <<>>
  /\ order = <<>>
  /\ req = [c \in Ids |-> IdleReq]
  /\ calls = [c \in Ids |-> 0]
  /\ fails = [c \in Ids |-> 0]
  /\ sleeps = [c \in Ids |-> <<>>]
  /\ twin = <<>>
ParkedVars == <<cfg, pc, batch_start, j, seen, all_examples, bc, results, order,
                req, calls, fails, sleeps, twin>>

\* the four directory commands and the extensions each one takes
Operations == {"ingest", "create", "curate", "save-as"}
Extensions(op) ==
  IF op = "ingest" THEN {".pdf", ".html", ".htm", ".docx", ".pptx", ".txt"}
  ELSE IF op = "create" THEN {".txt"}
  ELSE {".json"}

\* a directory entry is a sub-directory or a file with an extension; its name
\* stands for its path (all entries share the directory part)
EntryKinds == {"dir", ".txt", ".JSON", ".md"}
\* what os.listdir may return: the entries in any order
Listings ==
  UNION { { [i \in 1..k |-> [name |-> names[i], kind |-> kinds[i]]] :
              names \in {f \in [1..k -> 1..k] : \A a, b \in 1..k : a # b => f[a] # f[b]},
              kinds \in [1..k -> EntryKinds] } : k \in 0..MaxFiles }

\* the supported files in the order os.listdir gave them
ListedFiles(listing, extensions) ==
  LET file_ext(e) == IF e.kind = ".JSON" THEN ".json" ELSE e.kind   \* .lower()
  IN SelectSeq(listing, LAMBDA e : e.kind # "dir" /\ file_ext(e) \in extensions)

\* the supported files returned as listed
get_supported_files_unsorted(listing, extensions) == ListedFiles(listing, extensions)

\* get_supported_files: files only, extension lower-cased, `sorted(supported_files)`
get_supported_files(listing, extensions) ==
  SortSeq(ListedFiles(listing, extensions), LAMBDA a, b : a.name < b.name)

InitDir ==
  /\ Parked
  /\ call = <<>> /\ doc = <<>>
  /\ dirjob \in [op : Operations, listing : Listings, pc : {"start"},
                 supported_files : {<<>>}, at : {1}, handled : {<<>>},
                 results : {[total_files |-> 0, successful |-> 0, failed |-> 0,
                             results |-> <<>>, errors |-> <<>>]}]

\* process_directory_*: the supported files are listed; with none the empty
\* record is returned at once
DirStart ==
  /\ dirjob # <<>> /\ dirjob.pc = "start"
  /\ LET supported_files == get_supported_files(dirjob.listing, Extensions(dirjob.op))
     IN dirjob' = [dirjob EXCEPT
                     !.supported_files = supported_files,
                     !.results.total_files = Len(supported_files),
                     !.pc = IF supported_files = <<>> THEN "returned" ELSE "loop"]
  /\ UNCHANGED <<ParkedVars, call, doc>>

\* one pass of `for file_path in supported_files`: the per-file operation
\* returns the output path or raises, and the `except Exception` records it
DirFile ==
  /\ dirjob # <<>> /\ dirjob.pc = "loop" /\ dirjob.at <= Len(dirjob.supported_files)
  /\ LET file_path == dirjob.supported_files[dirjob.at].name
     IN \E raises \in BOOLEAN :
          dirjob' = [dirjob EXCEPT
            !.handled = Append(@, file_path),
            !.at = @ + 1,
            !.results = IF raises
                          THEN [@ EXCEPT !.failed = @ + 1, !.errors = Append(@, file_path)]
                          ELSE [@ EXCEPT !.successful = @ + 1, !.results = Append(@, file_path)]]
  /\ UNCHANGED <<ParkedVars, call, doc>>

\* the loop is over: the summary is printed and `results` returned
DirReturn ==
  /\ dirjob # <<>> /\ dirjob.pc = "loop" /\ dirjob.at > Len(dirjob.supported_files)
  /\ dirjob' = [dirjob EXCEPT !.pc = "returned"]
  /\ UNCHANGED <<ParkedVars, call, doc>>

NextDir ==
  \/ DirStart
  \/ DirFile
  \/ DirReturn

SpecDir == InitDir /\ [][NextDir]_vars

\* ------------------------------------------------------------- quality filter
MaxItems == 3
\* the ratings the model may give, and the thresholds asked for
Ratings == 6..8

\* the comparison written strict
KeepsStrict(rating, threshold) == rating > threshold

\* keep only items with `rating >= threshold`
Keeps(rating, threshold) == rating >= threshold

\* rate_and_filter: ratings[i] is the rating the model gave item i; an item
\* beyond the shorter of the two lists is unrated and excluded
rate_and_filter(items, ratings, threshold) ==
  LET aligned == [i \in 1..Min(Len(items), Len(ratings)) |->
                    [item |-> items[i], rating |-> ratings[i]]]
      kept == SelectSeq(aligned, LAMBDA x : Keeps(x.rating, threshold))
      total == Len(items)
      filtered == Len(kept)
  IN [kept |-> kept,
      metrics |-> [total |-> total, filtered |-> filtered,
                   \* filtered / total as a fraction, 0 for no items
                   retention_rate |-> IF total = 0 THEN <<0, 1>> ELSE <<filtered, total>>]]

InitRate ==
  /\ Parked
  /\ dirjob = <<>> /\ doc = <<>>
  /\ call \in [f : {"rate_and_filter"}, pc : {"called"},
               items : {[i \in 1..n |-> i] : n \in 0..MaxItems},
               ratings : UNION {[1..m -> Ratings] : m \in 0..MaxItems},
               threshold : Ratings, kept : {<<>>}, metrics : {<<>>}]

\* the call returns (kept, metrics)
RateAndFilter ==
  /\ call # <<>> /\ call.f = "rate_and_filter" /\ call.pc = "called"
  /\ LET out == rate_and_filter(call.items, call.ratings, call.threshold)
     IN call' = [call EXCEPT !.pc = "returned", !.kept = out.kept, !.metrics = out.metrics]
  /\ UNCHANGED <<ParkedVars, dirjob, doc>>

SpecRate == InitRate /\ [][RateAndFilter]_vars

\* ------------------------------------------------------------- text chunker
MaxText == 5
MaxChunkSize == 4

\* Where the chunk starting at character `start` ends (the index of its last
\* character): the end of the text when the window reaches it; else after the
\* last paragraph break ("n", "n": two newlines) lying past the midpoint of the
\* window, else after the last sentence-ending ".", else the hard boundary.
ChunkEnd(text, chunk_size, start) ==
  LET hard == start + chunk_size - 1
      window == start..hard
      breaks == {i \in window : i > start /\ 2 * (i - start + 1) > chunk_size
                                  /\ text[i] = "n" /\ text[i - 1] = "n"}
      stops == {i \in window : text[i] = "."}
      Highest(S) == CHOOSE i \in S : \A m \in S : m <= i
  IN IF hard >= Len(text) THEN Len(text)
     ELSE IF breaks # {} THEN Highest(breaks)
     ELSE IF stops # {} THEN Highest(stops)
     ELSE hard

RECURSIVE Windows(_, _, _, _)
\* greedy window advance from `start`; the next window starts `overlap`
\* characters before the end of this one, and always further on than this one
Windows(text, chunk_size, overlap, start) ==
  IF start > Len(text) THEN <<>>
  ELSE LET end == ChunkEnd(text, chunk_size, start)
           next == IF end + 1 - overlap > start THEN end + 1 - overlap ELSE start + 1
       IN <<SubSeq(text, start, end)>> \o
            (IF end >= Len(text) THEN <<>> ELSE Windows(text, chunk_size, overlap, next))

\* the empty text given one empty chunk
split_one_at_least(text, chunk_size, overlap) ==
  IF text = <<>> THEN << <<>> >> ELSE Windows(text, chunk_size, overlap, 1)

\* split(text, chunk_size, overlap): the chunks in document order
split(text, chunk_size, overlap) == Windows(text, chunk_size, overlap, 1)

InitSplit ==
  /\ Parked
  /\ dirjob = <<>> /\ doc = <<>>
  /\ call \in {c \in [f : {"split"}, pc : {"called"},
                      text : UNION {[1..n -> {"a", ".", "n"}] : n \in 0..MaxText},
                      chunk_size : 1..MaxChunkSize, overlap : 0..(MaxChunkSize - 1),
                      chunks : {<<>>}] : c.overlap < c.chunk_size}

\* the call returns the chunks
Split ==
  /\ call # <<>> /\ call.f = "split" /\ call.pc = "called"
  /\ call' = [call EXCEPT !.pc = "returned",
                          !.chunks = split(call.text, call.chunk_size, call.overlap)]
  /\ UNCHANGED <<ParkedVars, dirjob, doc>>

SpecSplit == InitSplit /\ [][Split]_vars

\* ------------------------------------------------------------- extractor
MaxTokens == 4
\* the triple backtick that opens and closes a fenced code block
FENCE == Tok("fence")

\* the text between the first fence and the next one, <<>> without such a pair
CodeBlock(text) ==
  LET fences == {i \in 1..Len(text) : text[i] = FENCE}
      open == CHOOSE i \in fences : \A m \in fences : i <= m
      after == {i \in fences : i > open}
      close == CHOOSE i \in after : \A m \in after : i <= m
  IN IF fences = {} \/ after = {} THEN <<>> ELSE SubSeq(text, open + 1, close - 1)

\* text.extract_json_from_text: the text itself, then the first fenced code
\* block, then the bracketed span; ValueError when none of them is JSON
extract_json_from_text(text) ==
  LET stripped == Strip(text)
      block == Strip(CodeBlock(stripped))
      span == BracketMatch(stripped)
      found == IF JsonValid(stripped) THEN stripped
               ELSE IF JsonValid(block) THEN block
               ELSE IF JsonValid(span) THEN span
               ELSE <<>>
  IN [raises |-> found = <<>>, value |-> JsonTokens(found)]

InitExtract ==
  /\ Parked
  /\ dirjob = <<>> /\ doc = <<>>
  /\ call \in [f : {"extract"}, pc : {"called"},
               text : UNION {[1..n -> {LB, RB, CM, SP, QT, WORD, OBJ, FENCE}] : n \in 0..MaxTokens},
               parsed : {<<>>}, extracted : {<<>>}]

\* the two extractors are applied to the text
Extract ==
  /\ call # <<>> /\ call.f = "extract" /\ call.pc = "called"
  /\ call' = [call EXCEPT !.pc = "returned",
                          !.parsed = parse_json_output(call.text),
                          !.extracted = extract_json_from_text(call.text)]
  /\ UNCHANGED <<ParkedVars, dirjob, doc>>

SpecExtract == InitExtract /\ [][Extract]_vars

\* ------------------------------------------------------------- process_document
\* process_document with the client taken one call at a time: chat_completion
\* and batch_completion return or raise as a whole (their retry loops are the
\* subject of Spec).  doc holds pc, the client calls made so far with their
\* messages (calls) and the outcome of each (received),
\* summary, all_messages, all_examples, conversations, batch_start, and for
\* every response taken from a batch how many items it added (taken).
MaxDocChunks == 3
MaxDocTarget == 5

DocConfigs ==
  { c \in [mode : {"document"}, provider : Providers, max_retries : 0..1,
           retry_delay : RetryDelays, batch_size : 1..MaxBatch,
           doc_len : {single_call_max_size - 1, single_call_max_size},
           n : 0..MaxDocChunks, target : 0..MaxDocTarget] :
      c.n = 0 <=> c.doc_len < single_call_max_size }

\* the quotient cut down
RoundDown(a, b) == a \div b

\* round(a / b) for a >= 0, b > 0: to the nearest integer, a tie to the even one
Round(a, b) ==
  LET q == a \div b
      r == a % b
  IN IF 2 * r < b THEN q
     ELSE IF 2 * r > b THEN q + 1
     ELSE IF q % 2 = 0 THEN q ELSE q + 1

\* `examples_per_chunk = max(1, round(num_examples / len(chunks)))`
examples_per_chunk ==
  LET rounded == Round(cfg.target, cfg.n) IN IF rounded > 1 THEN rounded ELSE 1

\* the prompt of a request: the number of examples asked for and the text
\* (chunk i, 0 for the whole document)
Prompt(kind, num_examples, text) == [kind |-> kind, num_examples |-> num_examples, text |-> text]

\* `for i, chunk in enumerate(chunks)`: one message list per chunk, in order
AllMessages == [i \in 1..cfg.n |-> Prompt("generation", examples_per_chunk, i)]

\* What the model may answer to a prompt: the examples asked for; as many
\* objects, the first without question, reasoning and answer; prose only.
Answers(prompt) ==
  LET asked == [i \in 1..prompt.num_examples |-> Item(prompt.text, i)]
  IN { ArrayText(asked),
       ArrayText(<<OBJ>> \o SubSeq(asked, 1, Len(asked) - 1)),
       <<WORD>> }

\* str(e) of a failed request: prose, or prose quoting a bracketed JSON value
\* (as `messages[0]` in a validation error of the API)
Messages == {<<WORD>>, <<WORD, LB, OBJ, RB, WORD>>}

RECURSIVE Products(_)
\* the sequences whose i-th element is taken from the i-th set
Products(sets) ==
  IF sets = <<>> THEN {<<>>}
  ELSE {<<h>> \o t : h \in Head(sets), t \in Products(Tail(sets))}

\* chat_completion as a whole: a text, None from the empty retry loop, a raise
ChatOutcomes(prompt) ==
  IF cfg.max_retries = 0 THEN {[raises |-> FALSE, value |-> NoneVal]}
  ELSE {[raises |-> FALSE, value |-> t] :
          t \in IF prompt.kind = "summary" THEN {<<WORD>>} ELSE Answers(prompt)}
       \cup {[raises |-> TRUE, value |-> <<>>]}

\* batch_completion as a whole.  api-endpoint: one string per position, the
\* text or "ERROR: <message>" (None from the empty retry loop); vllm: the texts,
\* or the call raises.
BatchOutcomes(batch_messages) ==
  LET n == Len(batch_messages)
      texts == [i \in 1..n |-> Answers(batch_messages[i])]
      errors == {<<ERRP>> \o m : m \in Messages}
  IN IF Api /\ cfg.max_retries = 0
       THEN {[raises |-> FALSE, value |-> [i \in 1..n |-> NoneVal]]}
     ELSE IF Api
       THEN {[raises |-> FALSE, value |-> v] :
               v \in Products([i \in 1..n |-> texts[i] \cup errors])}
     ELSE {[raises |-> FALSE, value |-> v] : v \in Products(texts)}
          \cup {[raises |-> TRUE, value |-> <<>>]}

\* any parsed element taken for a full example
HasKeysAny(example) == TRUE

\* the `question`, `reasoning` and `answer` keys are in the example
HasKeys(example) == example.t = "item"

\* process_document: one conversation (system, user, assistant) for each
\* example that has the three keys
Conversations(examples) ==
  LET complete == SelectSeq(examples, HasKeys)
  IN [i \in 1..Len(complete) |->
        <<[role |-> "system", content |-> <<>>],
          [role |-> "user", content |-> <<complete[i], "question">>],
          [role |-> "assistant", content |-> <<complete[i], "reasoning", "answer">>]>>]

\* generate_cot_examples has returned: the result is put together
DocResult(d) ==
  [d EXCEPT !.pc = "done", !.conversations = Conversations(d.all_examples)]

RECURSIVE DocProcess(_, _, _)
\* `for j, response in enumerate(batch_responses)` from position j on; an
\* exception of parse_json_output leaves the loop for the `except` of the group
DocProcess(d, batch_responses, jj) ==
  IF jj > Len(batch_responses) \/ TargetReached(d.all_examples) THEN d
  ELSE LET response == batch_responses[jj]
           chunk_examples == parse_json_output(response)
           extended == Extend(d.all_examples, chunk_examples.list)
           d1 == [d EXCEPT !.all_examples = extended,
                           !.taken = Append(@, [chunk |-> d.batch_start + jj - 1,
                                                response |-> response,
                                                added |-> Len(extended) - Len(d.all_examples)])]
       IN IF chunk_examples.raises THEN d
          ELSE IF TargetReached(extended) THEN d1
          ELSE DocProcess(d1, batch_responses, jj + 1)

\* head of `for batch_start in range(0, len(chunks), batch_size)`: the loop is
\* over or breaks on the target and process_document finishes, or
\* batch_completion is called with the messages of the next group
DocLoop(d) ==
  IF d.batch_start > cfg.n \/ TargetReached(d.all_examples) THEN DocResult(d)
  ELSE [d EXCEPT !.pc = "batch",
                 !.calls = Append(@, [op |-> "batch_completion",
                                      messages |-> SubSeq(d.all_messages, d.batch_start,
                                                          GroupEnd(d.batch_start, cfg.n))])]

InitDoc ==
  /\ cfg \in DocConfigs
  /\ pc = "start"
  /\ batch_start = 1
  /\ j = 1
  /\ seen = <<>>
  /\ all_examples = <<>>
  /\ bc = [lo |-> 1, hi |-> 0, i |-> 1]
  /\ results = <<>>
  /\ order = <<>>
  /\ req = [c \in Ids |-> IdleReq]
  /\ calls = [c \in Ids |-> 0]
  /\ fails = [c \in Ids |-> 0]
  /\ sleeps = [c \in Ids |-> <<>>]
  /\ twin = <<>> /\ dirjob = <<>> /\ call = <<>>
  /\ doc = [pc |-> "start", calls |-> <<>>, received |-> <<>>, summary |-> <<>>,
            all_messages |-> <<>>, all_examples |-> <<>>, conversations |-> <<>>,
            batch_start |-> 1, taken |-> <<>>]

\* process_document asks for the summary
DocStart ==
  /\ doc # <<>> /\ doc.pc = "start"
  /\ doc' = [doc EXCEPT !.pc = "summary",
                        !.calls = Append(@, [op |-> "chat_completion",
                                             messages |-> <<Prompt("summary", 0, 0)>>])]
  /\ UNCHANGED ParkedVars /\ UNCHANGED <<dirjob, call>>

\* the summary call is over; generate_cot_examples takes the single call for a
\* short document, else builds the messages and enters the loop over the groups
DocSummary ==
  /\ doc # <<>> /\ doc.pc = "summary"
  /\ \E o \in ChatOutcomes(Prompt("summary", 0, 0)) :
       doc' = IF o.raises THEN [doc EXCEPT !.pc = "raised", !.received = Append(@, o)]
              ELSE LET d == [doc EXCEPT !.summary = o.value, !.received = Append(@, o)]
                   IN IF UseSingleCall(cfg.doc_len)
                        THEN [d EXCEPT !.pc = "generate",
                                       !.calls = Append(@, [op |-> "chat_completion",
                                          messages |-> <<Prompt("generation", cfg.target, 0)>>])]
                        ELSE DocLoop([d EXCEPT !.all_messages = AllMessages])
  /\ UNCHANGED ParkedVars /\ UNCHANGED <<dirjob, call>>

\* _generate_single_call: the call is over and its response parsed
DocGenerate ==
  /\ doc # <<>> /\ doc.pc = "generate"
  /\ \E o \in ChatOutcomes(Prompt("generation", cfg.target, 0)) :
       LET examples == parse_json_output(o.value)
           d == [doc EXCEPT !.received = Append(@, o)]
       IN doc' = IF o.raises \/ examples.raises THEN [d EXCEPT !.pc = "raised"]
                 ELSE DocResult([d EXCEPT !.all_examples = SingleCallResult(o.value)])
  /\ UNCHANGED ParkedVars /\ UNCHANGED <<dirjob, call>>

\* batch_completion of the group is over: its responses are taken in order, or
\* the `except Exception` of the group takes the raise; then the next group
DocBatch ==
  /\ doc # <<>> /\ doc.pc = "batch"
  /\ \E o \in BatchOutcomes(Last(doc.calls).messages) :
       LET got == [doc EXCEPT !.received = Append(@, o)]
           d == IF o.raises THEN got ELSE DocProcess(got, o.value, 1)
       IN doc' = DocLoop([d EXCEPT !.batch_start = @ + cfg.batch_size])
  /\ UNCHANGED ParkedVars /\ UNCHANGED <<dirjob, call>>

NextDoc ==
  \/ DocStart
  \/ DocSummary
  \/ DocGenerate
  \/ DocBatch

SpecDoc == InitDoc /\ [][NextDoc]_vars

TypeOK ==
  /\ pc \in {"start", "chat", "loop", "bc_loop", "bc_group", "proc", "done", "raised"}
  /\ \A c \in Ids : req[c].st \in {"idle", "inflight", "sleeping", "ok", "failed", "raised", "none"}

\* ------------------------------------------------------------- properties
\* the group (0, 1, ...) of batch_size requests that request c belongs to
GroupOf(c) == (c - 1) \div cfg.batch_size
Finished == {"ok", "failed", "none"}
\* the collected list holds target_count items or more
TargetMet == Len(all_examples) >= cfg.target

RECURSIVE Flatten(_)
\* the items parsed from the responses of the chunks in s, in that order
Flatten(s) ==
  IF s = <<>> THEN <<>>
  ELSE parse_json_output(req[Head(s)].res).list \o Flatten(Tail(s))

\* C1: whatever the target_count, the document and the model outputs, the list
\* that generate returns (single-call path and chunked path) holds at most
\* target_count items.
C1_TargetCountCap ==
  (cfg.mode = "generate" /\ pc = "done") => Len(all_examples) <= cfg.target

\* C2, as claimed: once the items of chunk k have brought the collected list to
\* target_count, no chunk after k has ever been requested from the backend.
C2_NoRequestAfterSatisfyingChunk ==
  (Chunked /\ seen # <<>> /\ TargetMet)
    => \A c \in Chunks : c > Last(seen) => calls[c] = 0

\* C2, amended: once the items of chunk k have brought the collected list to
\* target_count, no chunk of a group after the group of k has ever been
\* requested (the chunks after k in k's own group were requested with it).
C2_NoRequestAfterSatisfyingGroup ==
  (Chunked /\ seen # <<>> /\ TargetMet)
    => \A c \in Chunks : GroupOf(c) > GroupOf(Last(seen)) => calls[c] = 0

\* chunk 1 reached the target, chunk 2 of its group was requested with it, and
\* chunk 3 of the next group never was
C2_Witness ==
  /\ Chunked /\ pc = "done" /\ cfg.n = 3 /\ cfg.batch_size = 2
  /\ seen = <<1>> /\ TargetMet
  /\ calls[2] > 0 /\ calls[3] = 0

\* C3: in the chunked path a response that does not parse to a JSON array adds
\* nothing and raises nothing: generate never raises, the collected list is the
\* items of the parsed responses in chunk order cut at the target, and when every
\* request returned a text and the target was not reached, every chunk's
\* response has been parsed.
C3_PartialFailureIsolation ==
  Chunked =>
    /\ pc # "raised"
    /\ all_examples = Take(Flatten(seen), cfg.target)
    /\ (pc = "done" /\ ~TargetMet
          /\ \A c \in Chunks : req[c].st \in {"ok", "failed"})
         => seen = [k \in 1..cfg.n |-> k]

\* three chunks, the second answers prose only, the first and the third each
\* contribute an item
C3_Witness ==
  /\ Chunked /\ pc = "done" /\ cfg.n = 3
  /\ req[2].st = "ok" /\ parse_json_output(req[2].res).none
  /\ all_examples = <<Item(1, 1), Item(3, 1)>>

\* C4: a failing request of a group does not end batch_completion: once the
\* call is over, every sibling of a request that met a failure was issued and
\* has its result, and the call returned one entry per request.
C4_SiblingIsolation ==
  (cfg.mode = "batch" /\ pc \in {"done", "raised"}) =>
    \A c \in Chunks : \A d \in Chunks :
      (c # d /\ GroupOf(c) = GroupOf(d) /\ fails[c] > 0) =>
        /\ calls[d] > 0
        /\ req[d].st \in Finished
        /\ pc = "done"
        /\ Len(results) = cfg.n

C6_PermanentNotRetried ==
  \A c \in Ids : req[c].st = "sleeping" => req[c].err \notin Permanent

\* every attempt of every request that was issued has failed
AllAttemptsFailed ==
  /\ \E c \in Ids : calls[c] > 0
  /\ \A c \in Ids : fails[c] = calls[c]

\* C7: when every attempt of every request fails, generate does not return: it
\* raises, on the single-call path and on the chunked path.
C7_UnavailabilityRaises ==
  (cfg.mode = "generate" /\ AllAttemptsFailed) => pc # "done"

\* C8: batch_completion's results are placed by submission position: while the
\* call runs and when it returns, the k-th result is the result of the k-th
\* request, and the returned list has one result per request.
C8_BatchResultOrder ==
  (pc \in {"bc_loop", "bc_group", "proc"} \/ (pc = "done" /\ cfg.mode = "batch")) =>
    /\ results = [k \in 1..(Min(bc.i, bc.hi + 1) - bc.lo) |-> req[bc.lo + k - 1].res]
    /\ bc.i > bc.hi => Len(results) = bc.hi - bc.lo + 1

\* a group of two whose second request completed first, its results gathered,
\* with a second group still to come
C8_Witness ==
  /\ cfg.mode = "batch" /\ Api /\ cfg.n = 3 /\ pc = "bc_loop"
  /\ order = <<2, 1>> /\ Len(results) = 2 /\ results[1] # results[2]

C9_WitnessNextGroup ==
  /\ Api /\ cfg.n = 3 /\ cfg.batch_size = 2
  /\ req[3].st = "inflight" /\ req[1].st = "failed" /\ req[2].st = "ok"

\* C10: in the chunked path, once the collected list has reached target_count
\* no group is submitted and no request is issued any more.
C10_GroupEarlyTermination ==
  [][(Chunked /\ TargetMet) => (calls' = calls /\ bc' = bc)]_vars

\* the target was reached with a group left that was never requested
C10_Witness ==
  /\ Chunked /\ pc = "done" /\ cfg.target > 0 /\ TargetMet
  /\ \E c \in Chunks : calls[c] = 0 /\ GroupOf(c) > GroupOf(Last(seen))

\* the transport returned for the request, with a text or with a failure
Completed == Finished \cup {"raised"}
\* the group of request c was submitted and batch_completion is past it
GroupOver(c) == calls[c] > 0 /\ ~(pc = "bc_group" /\ c \in Group)

\* C11: no request of a submitted group is dropped: once batch_completion is
\* past a group of which a request was issued, every request of that group was
\* issued and the transport returned for it, whether or not an earlier member
\* failed or already brought the collected list to target_count.
C11_NoMidFlightCancellation ==
  \A c \in Chunks : \A d \in Chunks :
    (GroupOf(c) = GroupOf(d) /\ GroupOver(c)) =>
      /\ calls[d] > 0
      /\ req[d].st \in Completed

\* batch_completion has been called
BatchCalled == bc.hi >= bc.lo
\* chat_completion has been called (its request is under way or over)
ChatCalled == req[0].st # "idle"

\* C12: a document shorter than single_call_max_size is served by the one
\* chat_completion call for the whole document and never by batch_completion;
\* any other document is chunked and served by batch_completion calls only, the
\* whole-document request never being made.
C12_PathDecision ==
  (cfg.mode = "generate" /\ pc # "start") =>
    IF cfg.doc_len < single_call_max_size
      THEN /\ ChatCalled
           /\ ~BatchCalled
           /\ pc \in {"chat", "done", "raised"}
           /\ \A c \in Chunks : calls[c] = 0
      ELSE /\ ~ChatCalled /\ calls[0] = 0
           /\ pc \in {"loop", "bc_loop", "bc_group", "proc", "done"}
           /\ pc \in {"bc_loop", "bc_group", "proc"} => BatchCalled

\* the longest document under the threshold answered by its single request
C12_Witness ==
  /\ cfg.mode = "generate" /\ cfg.doc_len = single_call_max_size - 1
  /\ pc = "done" /\ req[0].st = "ok" /\ calls[0] = 1 /\ ~BatchCalled

\* a document of exactly single_call_max_size characters served by a batch
C12_WitnessChunked ==
  /\ cfg.mode = "generate" /\ cfg.doc_len = single_call_max_size
  /\ pc = "done" /\ BatchCalled /\ calls[1] > 0 /\ ~ChatCalled

\* the items of the response to request c, as parse_json_output gives them
Parsed(c) == parse_json_output(req[c].res).list

\* C13: the chunked path never raises, and the list it returns holds, chunk
\* after chunk in chunk-index order, the first items of the processed chunks'
\* parsed arrays in their own order; when the chunks ran out before
\* target_count was reached it is the shorter, uncut list.
C13_ChunkOrderUnderGeneration ==
  Chunked =>
    /\ pc # "raised"
    /\ pc = "done" =>
         /\ \A p \in 1..Len(all_examples) :
              LET it == all_examples[p]
                  parsed == Parsed(it.c)
              IN /\ it.c \in Chunks
                 /\ \E m \in 1..Len(seen) : seen[m] = it.c
                 /\ it.k \in 1..Len(parsed)
                 /\ parsed[it.k] = it
                 /\ it.k > 1 => (p > 1 /\ all_examples[p - 1] = parsed[it.k - 1])
                 /\ \A q \in (p + 1)..Len(all_examples) :
                      \/ it.c < all_examples[q].c
                      \/ it.c = all_examples[q].c /\ it.k < all_examples[q].k
         /\ ~TargetMet => (batch_start > cfg.n /\ all_examples = Flatten(seen))

\* chunk 1 gave one item and chunk 2 two, of which the first was kept
C13_Witness ==
  /\ Chunked /\ pc = "done" /\ cfg.target = 2 /\ cfg.n = 2
  /\ Parsed(1) = <<Item(1, 1)>>
  /\ Parsed(2) = <<Item(2, 1), Item(2, 2)>>
  /\ all_examples = <<Item(1, 1), Item(2, 1)>>

\* three chunks processed, one item found, two asked for: the call returns it
C13_WitnessShort ==
  /\ Chunked /\ pc = "done" /\ cfg.target = 2 /\ cfg.n = 3
  /\ seen = <<1, 2, 3>> /\ all_examples = <<Item(2, 1)>>

\* the number of chunks handed to batch_completion so far (groups are
\* submitted in chunk order, bc.hi is the last chunk of the latest one)
ChunksSubmitted == IF BatchCalled THEN bc.hi ELSE 0
IsPrefix(s, t) == Len(s) <= Len(t) /\ SubSeq(t, 1, Len(s)) = s

\* C14: at every step of the chunked loop the collected list holds at most
\* target_count items and at most all the chunks have been submitted; a group
\* handed to batch_completion starts after every chunk submitted before, a
\* request that is over is never taken up again, and the collected list is only
\* ever extended at its end.
C14_AccumulationState ==
  [][Chunked =>
       /\ Len(all_examples) <= cfg.target /\ Len(all_examples') <= cfg.target
       /\ ChunksSubmitted <= cfg.n /\ ChunksSubmitted' <= cfg.n
       /\ ChunksSubmitted <= ChunksSubmitted'
       /\ (bc'.lo # bc.lo \/ bc'.hi # bc.hi) =>
            (bc'.lo > ChunksSubmitted /\ bc'.hi >= bc'.lo)
       /\ \A c \in Chunks : req[c].st \in Completed => req'[c] = req[c]
       /\ IsPrefix(all_examples, all_examples')]_vars

\* the second chunk answered two items where one was left to collect, with
\* the third chunk not submitted
C14_Witness ==
  /\ Chunked /\ cfg.n = 3 /\ cfg.target = 1 /\ cfg.batch_size = 2
  /\ seen = <<1, 2>> /\ Len(Parsed(2)) = 2
  /\ all_examples = <<Item(2, 1)>> /\ ChunksSubmitted = 2

\* request c is run by a retry loop: chat_completion (either provider) or
\* _process_message_async
RetryLoop(c) == c = 0 \/ Api
\* the loop of request c is over and every one of its attempts failed
Exhausted(c) ==
  calls[c] > 0 /\ fails[c] = calls[c] /\ req[c].st \notin {"inflight", "sleeping"}

C15_WitnessSingle ==
  /\ pc = "raised" /\ cfg.max_retries = 3 /\ req[0].st = "raised"
  /\ calls[0] = 3 /\ sleeps[0] = <<cfg.retry_delay, cfg.retry_delay * 2>>

\* C16: a request of batch_completion, whichever the provider, is reported as
\* failed only after the retry policy has run: with max_retries >= 1 the
\* transport was invoked max_retries times for it, with the sleeps
\* retry_delay * 1, ..., retry_delay * (max_retries - 1) in between.
C16_RetryInsideBatch ==
  \A c \in Chunks :
    (cfg.max_retries >= 1 /\ req[c].st \in {"failed", "raised"}) =>
      /\ calls[c] = cfg.max_retries
      /\ sleeps[c] = [i \in 1..(cfg.max_retries - 1) |-> cfg.retry_delay * i]

\* what the model wrote for conversation i: the i-th element of the array in
\* the response, if there is one
Rewrite(i) ==
  LET out == parse_json_output(req[0].res)
  IN IF ~out.none /\ ~out.raises /\ i <= Len(out.list) THEN <<out.list[i]>> ELSE <<>>
\* what enhance_with_cot returned at position i, if anything
Returned(i) == IF i <= Len(all_examples) THEN <<all_examples[i]>> ELSE <<>>
\* the response holds one element per conversation, or no array at all
OneRewriteEach ==
  LET out == parse_json_output(req[0].res)
  IN out.none \/ Len(out.list) = cfg.n

\* C17: when the model has answered with a rewrite for every conversation (or
\* with no array at all) enhance_with_cot returns and does not raise, a
\* conversation whose rewrite is not a rewritten conversation comes back
\* unmodified, and every other conversation comes back rewritten.
C17_EnhanceDegradesGracefully ==
  (cfg.mode = "enhance" /\ req[0].st = "ok" /\ OneRewriteEach) =>
    /\ pc = "done"
    /\ \A i \in 1..cfg.n :
         IF Rewrite(i) = <<Enhanced(i)>>
           THEN Returned(i) = <<Enhanced(i)>>
           ELSE Returned(i) = <<Conv(i)>>

\* the requests that were made, whatever the number of transport attempts
RequestsMade == {c \in Ids : req[c].st # "idle"}

\* C18: for a list of two or more conversations (and a client that attempts
\* its requests), once enhance_with_cot is over as many requests as there are
\* conversations have been made, and never more than batch_size requests were
\* in flight.
C18_EnhanceRequestShape ==
  (cfg.mode = "enhance" /\ cfg.n >= 2 /\ cfg.max_retries >= 1) =>
    /\ Cardinality(InFlight) <= cfg.batch_size
    /\ pc \in {"done", "raised"} => Cardinality(RequestsMade) = cfg.n

\* C19: whatever text the model answers, enhance_with_cot returns n
\* conversations, the i-th being conversation i or its rewritten form.
C19_EnhanceCardinalityOrder ==
  (cfg.mode = "enhance" /\ req[0].st = "ok") =>
    /\ pc = "done"
    /\ Len(all_examples) = cfg.n
    /\ \A i \in 1..Len(all_examples) : all_examples[i] \in {Conv(i), Enhanced(i)}

\* what a run shows apart from its log settings and its log lines: the request
\* or sleep it made last, the text handed back, the responses and the collected
\* items, its position, the return or the raise
Observable(r) == [r EXCEPT !.env = Unset, !.log = 0]

\* C20: two runs on the same input and the same backend answers, one with
\* SDK_VERBOSE and SDK_DEBUG unset and one with any setting of the two, make
\* the same requests and sleeps in the same order, collect the same items and
\* return or raise alike, at every step.
C20_LogFlagsNonInterfering ==
  twin # <<>> => Observable(twin[1]) = Observable(twin[2])

\* the chunked path returned items in both runs, the second run being verbose
\* and in debug mode and having written lines the first did not
C20_Witness ==
  /\ twin # <<>> /\ ~UseSingleCall(cfg.doc_len)
  /\ twin[1].pc = "done" /\ twin[2].pc = "done"
  /\ Len(twin[1].collected) = 2
  /\ Verbose(twin[2]) /\ DebugMode(twin[2]) /\ ~Verbose(twin[1])
  /\ twin[2].log > twin[1].log

\* both runs sleep after the same failed attempt of the summary request
C20_WitnessRetry ==
  /\ twin # <<>> /\ twin[1].pc = "sleeping" /\ twin[2].pc = "sleeping"
  /\ twin[1].cur = -1 /\ twin[1].attempt = 1
  /\ DebugMode(twin[2]) /\ twin[2].log > twin[1].log
\* the paths of the directory's files that the command supports
SupportedPaths ==
  {e.name : e \in {dirjob.listing[i] : i \in 1..Len(dirjob.listing)} \cap
                  {e \in [name : 1..MaxFiles, kind : EntryKinds] :
                     /\ e.kind # "dir"
                     /\ (IF e.kind = ".JSON" THEN ".json" ELSE e.kind) \in Extensions(dirjob.op)}}
Increasing(s) == \A a, b \in 1..Len(s) : a < b => s[a] < s[b]
Range(s) == {s[i] : i \in 1..Len(s)}

\* C21: whichever the command and whichever files fail, the per-file operation
\* is applied to the supported files one after the other in sorted path order,
\* a file once each, a failure not stopping the files after it; when the call
\* returns every supported file was handled, successful + failed = total_files,
\* results holds the successful files and errors the failed ones.
C21_DirectoryFailureIsolation ==
  dirjob # <<>> =>
    /\ Increasing(dirjob.handled)
    /\ Range(dirjob.handled) \subseteq SupportedPaths
    /\ \A p \in SupportedPaths : \A q \in Range(dirjob.handled) :
         p < q => p \in Range(dirjob.handled)
    /\ dirjob.pc = "returned" =>
         LET r == dirjob.results
         IN /\ Range(dirjob.handled) = SupportedPaths
            /\ r.total_files = Cardinality(SupportedPaths)
            /\ r.successful + r.failed = r.total_files
            /\ Len(r.results) = r.successful
            /\ Len(r.errors) = r.failed
            /\ Range(r.results) \cup Range(r.errors) = SupportedPaths
            /\ Range(r.results) \cap Range(r.errors) = {}

\* three supported files listed out of order with a sub-directory among them:
\* the first in path order failed, the two after it were still processed
C21_Witness ==
  /\ dirjob # <<>> /\ dirjob.pc = "returned" /\ dirjob.op = "save-as"
  /\ Len(dirjob.listing) = 3 /\ dirjob.listing[1].name = 3 /\ dirjob.listing[2].name = 1
  /\ dirjob.handled = <<1, 2, 3>>
  /\ dirjob.results.errors = <<1>> /\ dirjob.results.results = <<2, 3>>
\* the rated items: the positions that have both an item and a rating
Rated == 1..Min(Len(call.items), Len(call.ratings))

\* C22: rate_and_filter keeps exactly the items rated at the threshold or
\* above (an item rated exactly the threshold is kept), in input order; total
\* is the number of input items, filtered the number kept, and retention_rate
\* is filtered / total, which is 0 with no exception when there is no item.
C22_RatingFilterBoundary ==
  (call # <<>> /\ call.f = "rate_and_filter" /\ call.pc = "returned") =>
    /\ \A i \in Rated :
         (call.ratings[i] >= call.threshold)
           <=> \E p \in 1..Len(call.kept) :
                 call.kept[p] = [item |-> call.items[i], rating |-> call.ratings[i]]
    /\ \A p \in 1..Len(call.kept) :
         /\ call.kept[p].item \in Rated
         /\ call.kept[p].rating = call.ratings[call.kept[p].item]
         /\ \A q \in 1..Len(call.kept) : p < q => call.kept[p].item < call.kept[q].item
    /\ call.metrics.total = Len(call.items)
    /\ call.metrics.filtered = Len(call.kept)
    /\ LET rate == call.metrics.retention_rate
       IN IF call.metrics.total = 0
            THEN rate[1] = 0 /\ rate[2] # 0
            ELSE rate[1] * call.metrics.total = call.metrics.filtered * rate[2] /\ rate[2] # 0

\* three items rated 8, 7 and 6 with threshold 7: the first two are kept
C22_Witness ==
  /\ call # <<>> /\ call.f = "rate_and_filter" /\ call.pc = "returned"
  /\ call.ratings = <<8, 7, 6>> /\ call.threshold = 7 /\ Len(call.items) = 3
  /\ call.kept = <<[item |-> 1, rating |-> 8], [item |-> 2, rating |-> 7]>>
  /\ call.metrics.retention_rate = <<2, 3>>

\* no item at all: the call returns with a rate of 0
C22_WitnessEmpty ==
  /\ call # <<>> /\ call.f = "rate_and_filter" /\ call.pc = "returned"
  /\ call.items = <<>> /\ call.metrics.total = 0 /\ call.metrics.retention_rate[1] = 0
\* C23: for chunk_size > 0 and 0 <= overlap < chunk_size, split of the empty
\* text returns no chunk at all, split of a non-empty text shorter than
\* chunk_size returns the whole text as its one chunk, and no chunk returned
\* is empty.
C23_ChunkerEdgeCases ==
  (call # <<>> /\ call.f = "split" /\ call.pc = "returned") =>
    /\ call.text = <<>> => call.chunks = <<>>
    /\ (call.text # <<>> /\ Len(call.text) < call.chunk_size) => call.chunks = <<call.text>>
    /\ \A k \in 1..Len(call.chunks) : call.chunks[k] # <<>>

\* a text of two characters holding a sentence end, under a window of three:
\* one chunk, the whole text
C23_Witness ==
  /\ call # <<>> /\ call.f = "split" /\ call.pc = "returned"
  /\ call.text = <<".", "a">> /\ call.chunk_size = 3 /\ call.chunks = <<call.text>>

\* the empty text gave no chunk; a longer text was cut after its sentence end
C23_WitnessEmpty ==
  call # <<>> /\ call.f = "split" /\ call.pc = "returned" /\ call.text = <<>> /\ call.chunks = <<>>
C23_WitnessCut ==
  /\ call # <<>> /\ call.f = "split" /\ call.pc = "returned"
  /\ call.text = <<"a", ".", "a", "a", "a">> /\ call.chunk_size = 3 /\ call.overlap = 1
  /\ call.chunks = <<<<"a", ".">>, <<".">>, <<"a", "a", "a">>>>
\* C24: whatever the text, neither extractor raises: each returns the JSON
\* value it recovered or a failure value, and the caller decides what to do
\* with a failure.
C24_ExtractorNeverRaises ==
  (call # <<>> /\ call.f = "extract" /\ call.pc = "returned") =>
    /\ ~call.parsed.raises
    /\ ~call.extracted.raises

\* C24, for parse_json_output alone: a text that holds no JSON array comes back
\* as None, never as an exception.
C24_ParseJsonOutputNeverRaises ==
  (call # <<>> /\ call.f = "extract" /\ call.pc = "returned") =>
    /\ ~call.parsed.raises
    /\ call.parsed.none <=> ~IsList(IF BracketMatch(Strip(call.text)) # <<>>
                                      THEN BracketMatch(Strip(call.text))
                                      ELSE <<>>)
\* process_document is on the chunked path and has built its requests
DocChunked == doc # <<>> /\ ~UseSingleCall(cfg.doc_len) /\ doc.pc \notin {"start", "summary", "raised"}
\* the integer nearest to target / n, the even one of two equally near
NearestEven ==
  CHOOSE q \in 0..cfg.target :
    LET twice == 2 * (IF q * cfg.n > cfg.target THEN q * cfg.n - cfg.target
                                                ELSE cfg.target - q * cfg.n)
    IN twice < cfg.n \/ (twice = cfg.n /\ q % 2 = 0)
RECURSIVE Concat(_)
Concat(seqs) == IF seqs = <<>> THEN <<>> ELSE Head(seqs) \o Concat(Tail(seqs))
\* the messages handed to batch_completion so far, call after call
BatchMessages ==
  Concat([k \in 1..(Len(doc.calls) - 1) |-> doc.calls[k + 1].messages])

\* C25: on the chunked path one request is built per chunk, in chunk order,
\* each asking for the same number of examples: the integer nearest to
\* target_count / num_chunks (ties to the even one) and never less than 1; the
\* groups handed to batch_completion are these requests in order, none twice.
C25_EvenPerChunkAllocation ==
  DocChunked =>
    LET per_chunk_target == IF NearestEven > 1 THEN NearestEven ELSE 1
    IN /\ cfg.n >= 1 /\ per_chunk_target >= 1
       /\ Len(doc.all_messages) = cfg.n
       /\ \A i \in 1..cfg.n :
            doc.all_messages[i] = Prompt("generation", per_chunk_target, i)
       /\ \A k \in 2..Len(doc.calls) :
            /\ doc.calls[k].op = "batch_completion"
            /\ Len(doc.calls[k].messages) \in 1..cfg.batch_size
       /\ IsPrefix(BatchMessages, doc.all_messages)

\* five examples over two chunks: each request asks for two (2.5 goes to the
\* even 2), and both chunks were requested, in order
C25_Witness ==
  /\ DocChunked /\ doc.pc = "done" /\ cfg.target = 5 /\ cfg.n = 2
  /\ BatchMessages = <<Prompt("generation", 2, 1), Prompt("generation", 2, 2)>>

\* no example asked for: each request still asks for one
C25_WitnessZero ==
  /\ DocChunked /\ cfg.target = 0 /\ cfg.n = 3
  /\ \A i \in 1..3 : doc.all_messages[i].num_examples = 1
SummaryCall == [op |-> "chat_completion", messages |-> <<Prompt("summary", 0, 0)>>]
GenerationCall == [op |-> "chat_completion", messages |-> <<Prompt("generation", cfg.target, 0)>>]

\* C26: for a document shorter than single_call_max_size process_document
\* calls chat_completion for the summary, then chat_completion for the
\* examples, and the client no more; when it returns, two calls were made, the
\* result holds the summary that came back, every example parsed from the second
\* answer, and one conversation of three messages (system, user, assistant) for
\* each example that has question, reasoning and answer, in the order of the
\* examples, hence no more conversations than examples.
C26_ProcessDocumentSequence ==
  (doc # <<>> /\ cfg.doc_len < single_call_max_size) =>
    /\ IsPrefix(doc.calls, <<SummaryCall, GenerationCall>>)
    /\ Len(doc.received) <= Len(doc.calls)
    /\ doc.pc = "generate" => Len(doc.calls) = 2 /\ Len(doc.received) = 1
    /\ doc.pc = "done" =>
         LET full == {i \in 1..Len(doc.all_examples) : doc.all_examples[i].t = "item"}
         IN /\ doc.calls = <<SummaryCall, GenerationCall>>
            /\ Len(doc.received) = 2
            /\ doc.summary = doc.received[1].value /\ doc.summary # NoneVal
            /\ doc.all_examples = parse_json_output(doc.received[2].value).list
            /\ Len(doc.conversations) = Cardinality(full)
            /\ Len(doc.conversations) <= Len(doc.all_examples)
            /\ \A c \in 1..Len(doc.conversations) :
                 LET conv == doc.conversations[c]
                     \* the c-th example that has the three keys
                     i == CHOOSE i \in full : Cardinality({m \in full : m <= i}) = c
                 IN /\ Len(conv) = 3
                    /\ <<conv[1].role, conv[2].role, conv[3].role>> = <<"system", "user", "assistant">>
                    /\ conv[2].content = <<doc.all_examples[i], "question">>
                    /\ conv[3].content = <<doc.all_examples[i], "reasoning", "answer">>

\* two objects came back, the first without the three keys: two examples, one
\* conversation, two calls
C26_Witness ==
  /\ doc # <<>> /\ cfg.doc_len < single_call_max_size /\ doc.pc = "done" /\ cfg.target = 2
  /\ doc.all_examples = <<OBJ, Item(0, 1)>>
  /\ Len(doc.conversations) = 1 /\ Len(doc.calls) = 2
\* the responses of the batch calls so far, in chunk order
BatchResponses == Concat([k \in 1..(Len(doc.received) - 1) |-> doc.received[k + 1].value])
\* no batch call raised and every response that came back parses to exactly the
\* number of examples its request asked for, none being an "ERROR: " string
AllAsAsked ==
  /\ \A k \in 2..Len(doc.received) : ~doc.received[k].raises
  /\ \A c \in 1..Len(BatchResponses) :
       /\ Head(BatchResponses[c]) # ERRP
       /\ BatchResponses[c] # NoneVal
       /\ Len(parse_json_output(BatchResponses[c]).list) = doc.all_messages[c].num_examples

\* C27, as claimed: on the chunked path with target_count >= 1, when every
\* response holds exactly the examples asked for and no request fails, generate
\* returns exactly target_count examples.
C27_EvenAllocationSuffices ==
  (DocChunked /\ doc.pc = "done" /\ cfg.target >= 1 /\ AllAsAsked) =>
    Len(doc.all_examples) = cfg.target

\* C27, amended: under the same conditions generate returns target_count
\* examples when num_chunks * per_chunk_target reaches target_count, and
\* otherwise the num_chunks * per_chunk_target examples that were asked for.
C27_EvenAllocationReturnsAsked ==
  (DocChunked /\ doc.pc = "done" /\ cfg.target >= 1 /\ AllAsAsked) =>
    LET asked == cfg.n * doc.all_messages[1].num_examples
    IN Len(doc.all_examples) = IF asked >= cfg.target THEN cfg.target ELSE asked

\* four examples over three chunks: each chunk is asked for one and gives one,
\* three examples are returned
C27_Witness ==
  /\ DocChunked /\ doc.pc = "done" /\ cfg.target = 4 /\ cfg.n = 3 /\ AllAsAsked
  /\ Len(doc.all_examples) = 3

\* three examples over two chunks: each is asked for two, and the second answer
\* is cut to reach three
C27_WitnessReached ==
  /\ DocChunked /\ doc.pc = "done" /\ cfg.target = 3 /\ cfg.n = 2 /\ AllAsAsked
  /\ doc.all_examples = <<Item(1, 1), Item(1, 2), Item(2, 1)>>
\* the batch_completion call of a group of the chunked path raises in this step
GroupRaises ==
  /\ Chunked /\ pc = "bc_group"
  /\ \E c \in Group : req[c].st = "inflight" /\ req'[c].st = "raised"

\* C28: on the chunked path, when the batch_completion call of a group raises,
\* generate goes on to the head of its loop with the examples collected so far
\* unchanged and no response of that group processed; from the head of the loop
\* the next group is submitted whenever one is left and the target is not
\* reached; and the chunked path never ends with an exception.
C28_FailedGroupDoesNotEndJob ==
  [][/\ GroupRaises =>
          /\ pc' = "loop"
          /\ all_examples' = all_examples
          /\ seen' = seen
          /\ batch_start' = batch_start + cfg.batch_size
     /\ (Chunked /\ pc = "loop" /\ batch_start <= cfg.n /\ ~TargetReached(all_examples)) =>
          /\ pc' = "bc_loop"
          /\ bc'.lo = batch_start /\ bc'.i = batch_start /\ bc'.hi >= batch_start
     /\ Chunked => pc' # "raised"]_vars

\* the call for the second group raised; the first group had given an example
\* that is still there, and the third group was submitted and gave another
C28_Witness ==
  /\ Chunked /\ ~Api /\ pc = "done" /\ cfg.batch_size = 1 /\ cfg.n >= 3
  /\ req[1].st = "ok" /\ req[2].st = "raised" /\ req[3].st = "ok"
  /\ Len(all_examples) >= 2
  /\ all_examples[1].c = 1
  /\ all_examples[Len(all_examples)].c = 3
  /\ \A i \in 1..Len(all_examples) : all_examples[i].c # 2
  /\ seen = <<1, 3>>
\* C29: on the chunked path a response that is the "ERROR: <message>" string
\* of a failed request adds no example to all_examples, whatever the message.
C29_FailedRequestContributesNothing ==
  DocChunked =>
    \A k \in 1..Len(doc.taken) :
      Head(doc.taken[k].response) = ERRP => doc.taken[k].added = 0
\* C30: whatever max_retries is, a chat_completion call that is over has raised
\* or has returned a string after at least one attempt, and every position of a
\* batch_completion result is a string; nothing is None.
C30_StringOrError ==
  /\ req[0].st \notin {"idle", "inflight", "sleeping"} =>
       \/ req[0].st = "raised"
       \/ req[0].res # NoneVal /\ calls[0] >= 1
  /\ \A k \in 1..Len(results) : results[k] # NoneVal
====
